---- MODULE Spec2Model ----
(***************************************************************************)
(* Text layout of core/embed/rust/src/ui/component/text.rs:                *)
(* TextStyle::layout_ops / layout_text driving Span::fit_horizontally and  *)
(* reporting every decision to a LayoutSink.                               *)
(***************************************************************************)
EXTENDS Integers, Sequences, FiniteSets, TLC

(* ---------------------------------------------------------------------- *)
(* Bounds of the model.                                                     *)
(* ---------------------------------------------------------------------- *)
\* Most ops pulled from the op stream, and most text bytes they carry in all.
MaxOps == 2
MaxBytes == 3
BoundsX1 == 4
BoundsY1 == 4
\* Longest format string, and most calls of next() after the end of the stream.
MaxInput == 5
MaxEnded == 2

(* ---------------------------------------------------------------------- *)
(* Byte constants of the source.                                            *)
(* ---------------------------------------------------------------------- *)
ASCII_LF == 10
ASCII_CR == 13
ASCII_SPACE == 32
ASCII_HYPHEN == 45
ASCII_OPEN_BRACE == 123
ASCII_CLOSED_BRACE == 125

\* Two visible bytes of different widths: 'W' and 'a'.
Bytes == {ASCII_LF, ASCII_CR, ASCII_SPACE, 87, 97}

\* The byte strings of at most n bytes.
RECURSIVE SeqsUpTo(_)
SeqsUpTo(n) ==
    IF n = 0 THEN {<<>>}
    ELSE LET shorter == SeqsUpTo(n - 1)
         IN  shorter \cup {Append(s, b) : s \in {t \in shorter : Len(t) = n - 1}, b \in Bytes}

Texts == SeqsUpTo(MaxBytes)

Fonts == {1, 2}
Colors == {0, 1}

(* ---------------------------------------------------------------------- *)
(* Font metrics (display::Font): pure, deterministic per font handle.       *)
(* ---------------------------------------------------------------------- *)
text_width_byte(font, ch) ==
    IF font = 1
    THEN CASE ch = 97 -> 1
           [] ch = 87 -> 2
           [] ch = ASCII_SPACE -> 1
           [] ch = ASCII_HYPHEN -> 1
           [] OTHER -> 0
    ELSE CASE ch = 97 -> 2
           [] ch = 87 -> 4
           [] ch = ASCII_SPACE -> 1
           [] ch = ASCII_HYPHEN -> 2
           [] OTHER -> 1

\* Font 2 is the smallest font with a positive line height.
line_height(font) == IF font = 1 THEN 3 ELSE 1

RECURSIVE text_width(_, _)
text_width(font, text) ==
    IF text = <<>> THEN 0
    ELSE text_width_byte(font, Head(text)) + text_width(font, Tail(text))

(* ---------------------------------------------------------------------- *)
(* Span::fit_horizontally                                                   *)
(* ---------------------------------------------------------------------- *)
is_whitespace(ch) == ch = ASCII_SPACE \/ ch = ASCII_LF \/ ch = ASCII_CR

initial_line_no_advance(text_font) ==
    [length |-> 0,
     skip_next_chars |-> 0,
     advance |-> [x |-> 0, y |-> 0],
     insert_hyphen_before_line_break |-> FALSE]

\* `let mut line = Self { .. }`: zero length, zero width, full line break.
initial_line(text_font) ==
    [length |-> 0,
     skip_next_chars |-> 0,
     advance |-> [x |-> 0, y |-> line_height(text_font)],
     insert_hyphen_before_line_break |-> FALSE]

\* Break before the whitespace at index i, without hyphen.
break_before_whitespace_skip2(line, i, span_width, ch, text_font) ==
    [length |-> i,
     skip_next_chars |-> 2,
     advance |-> [x |-> span_width,
                  y |-> IF ch = ASCII_CR THEN line_height(text_font) \div 2
                        ELSE line.advance.y],
     insert_hyphen_before_line_break |-> FALSE]

break_before_whitespace(line, i, span_width, ch, text_font) ==
    [length |-> i,
     skip_next_chars |-> 1,
     advance |-> [x |-> span_width,
                  y |-> IF ch = ASCII_CR THEN line_height(text_font) \div 2
                        ELSE line.advance.y],
     insert_hyphen_before_line_break |-> FALSE]

\* `if ch == ASCII_LF || ch == ASCII_CR { return line; }`
is_end_of_line_lf_only(ch) == ch = ASCII_LF

is_end_of_line(ch) == ch = ASCII_LF \/ ch = ASCII_CR

\* `span_width + char_width > max_width`
exceeds_max_width_ge(span_width, char_width, max_width) ==
    span_width + char_width >= max_width

exceeds_max_width(span_width, char_width, max_width) ==
    span_width + char_width > max_width

have_space_for_break_strict(span_width, char_width, hyphen_width, max_width) ==
    span_width + char_width + hyphen_width < max_width

have_space_for_break_no_hyphen(span_width, char_width, hyphen_width, max_width) ==
    span_width + char_width <= max_width

have_space_for_break(span_width, char_width, hyphen_width, max_width) ==
    span_width + char_width + hyphen_width <= max_width

can_break_word_always(breaking, found_any_whitespace) == TRUE

can_break_word(breaking, found_any_whitespace) ==
    breaking = "BreakWordsAndInsertHyphen" \/ ~found_any_whitespace

break_after_char_skip1(line, i, span_width, char_width) ==
    [length |-> i + 1,
     skip_next_chars |-> 1,
     advance |-> [x |-> span_width + char_width, y |-> line.advance.y],
     insert_hyphen_before_line_break |-> TRUE]

\* Break after the character at index i, append hyphen.
break_after_char(line, i, span_width, char_width) ==
    [length |-> i + 1,
     skip_next_chars |-> 0,
     advance |-> [x |-> span_width + char_width, y |-> line.advance.y],
     insert_hyphen_before_line_break |-> TRUE]

\* State of the scan before the loop.
scan_start(text_font) ==
    [i |-> 0,
     line |-> initial_line(text_font),
     span_width |-> 0,
     found_any_whitespace |-> FALSE,
     returned |-> FALSE]

\* One iteration of `for i in 0..text.len()`, on the byte at index s.i.
\* When the iteration returns, s.i stays at the index of the returning byte.
scan_step(s, text, max_width, text_font, hyphen_font, breaking) ==
    LET i == s.i
        ch == text[i + 1]
        char_width == text_width_byte(text_font, ch)
        hyphen_width == text_width_byte(hyphen_font, ASCII_HYPHEN)
    IN  IF is_whitespace(ch)
        THEN LET line == break_before_whitespace(s.line, i, s.span_width, ch, text_font)
             IN  IF is_end_of_line(ch)
                 THEN [s EXCEPT !.line = line, !.returned = TRUE]
                 ELSE [s EXCEPT !.line = line,
                                !.found_any_whitespace = TRUE,
                                !.span_width = s.span_width + char_width,
                                !.i = i + 1]
        ELSE IF exceeds_max_width(s.span_width, char_width, max_width)
        THEN [s EXCEPT !.returned = TRUE]
        ELSE LET line ==
                     IF /\ have_space_for_break(s.span_width, char_width, hyphen_width, max_width)
                        /\ can_break_word(breaking, s.found_any_whitespace)
                     THEN break_after_char(s.line, i, s.span_width, char_width)
                     ELSE s.line
             IN  [s EXCEPT !.line = line,
                           !.span_width = s.span_width + char_width,
                           !.i = i + 1]

\* The scan after at most n iterations (fewer when an iteration returned).
RECURSIVE scan(_, _, _, _, _, _)
scan(n, text, max_width, text_font, hyphen_font, breaking) ==
    IF n = 0 THEN scan_start(text_font)
    ELSE LET s == scan(n - 1, text, max_width, text_font, hyphen_font, breaking)
         IN  IF s.returned THEN s
             ELSE scan_step(s, text, max_width, text_font, hyphen_font, breaking)

\* "The whole text is fitting."
whole_text(text, span_width) ==
    [length |-> Len(text),
     skip_next_chars |-> 0,
     advance |-> [x |-> span_width, y |-> 0],
     insert_hyphen_before_line_break |-> FALSE]

fit_horizontally(text, max_width, text_font, hyphen_font, breaking) ==
    LET s == scan(Len(text), text, max_width, text_font, hyphen_font, breaking)
    IN  IF s.returned THEN s.line ELSE whole_text(text, s.span_width)

(* ---------------------------------------------------------------------- *)
(* Tokenizer::next.  `inner` is the 0-based index of the next byte the      *)
(* peekable iterator yields; peek() does not move it.                       *)
(* ---------------------------------------------------------------------- *)
\* `loop { match self.inner.next() .. }`: index of the first '}' at or after
\* k, -1 if the input ends first.
RECURSIVE find_close(_, _)
find_close(inp, k) ==
    IF k >= Len(inp) THEN -1
    ELSE IF inp[k + 1] = ASCII_CLOSED_BRACE THEN k
    ELSE find_close(inp, k + 1)

\* `loop { match self.inner.peek() .. }`: index of the first '{' at or after
\* k, the length of the input if there is none.
RECURSIVE literal_end_at_closed_brace(_, _)
literal_end_at_closed_brace(inp, k) ==
    IF k >= Len(inp) THEN Len(inp)
    ELSE IF inp[k + 1] = ASCII_CLOSED_BRACE THEN k
    ELSE literal_end_at_closed_brace(inp, k + 1)

RECURSIVE literal_end(_, _)
literal_end(inp, k) ==
    IF k >= Len(inp) THEN Len(inp)
    ELSE IF inp[k + 1] = ASCII_OPEN_BRACE THEN k
    ELSE literal_end(inp, k + 1)

\* `Token::Argument(&self.input[open + 1..close])`
argument_token_with_brace(inp, open, close) ==
    [kind |-> "Argument", bytes |-> SubSeq(inp, open + 1, close)]

argument_token(inp, open, close) ==
    [kind |-> "Argument", bytes |-> SubSeq(inp, open + 2, close)]

\* `Token::Literal(&self.input[start..open])`
literal_token(inp, start, end) ==
    [kind |-> "Literal", bytes |-> SubSeq(inp, start + 1, end)]

no_token == [kind |-> "None", bytes |-> <<>>]

\* The end of the input inside an argument: `None => { break None; }`, with
\* the iterator left at the end.
unterminated_as_argument(inp, open) ==
    [token |-> argument_token(inp, open, Len(inp)), inner |-> Len(inp)]

unterminated(inp, open) ==
    [token |-> no_token, inner |-> Len(inp)]

\* One call of next() with the iterator at pos: the token returned (no_token
\* for None) and the new position of the iterator.
tokenizer_next(inp, pos) ==
    IF pos >= Len(inp)
    THEN [token |-> no_token, inner |-> pos]
    ELSE IF inp[pos + 1] = ASCII_OPEN_BRACE
    THEN LET close == find_close(inp, pos + 1)
         IN  IF close = -1
             THEN unterminated(inp, pos)
             ELSE [token |-> argument_token(inp, pos, close), inner |-> close + 1]
    ELSE LET end == literal_end(inp, pos + 1)
         IN  [token |-> literal_token(inp, pos, end), inner |-> end]

\* All tokens of an input, in the order next() returns them.
RECURSIVE tokens_from(_, _)
tokens_from(inp, pos) ==
    LET r == tokenizer_next(inp, pos)
    IN  IF r.token.kind = "None" THEN <<>>
        ELSE <<r.token>> \o tokens_from(inp, r.inner)

(* ---------------------------------------------------------------------- *)
(* The caller's arg_to_op: two resolvers.  The first knows no argument, the *)
(* second maps "a.." to a color, the empty argument to nothing and every    *)
(* other argument to its own text.                                          *)
(* ---------------------------------------------------------------------- *)
Resolvers == {1, 2}

none_op == [kind |-> "None", bytes |-> <<>>, value |-> 0]
text_op(bytes) == [kind |-> "Text", bytes |-> bytes, value |-> 0]
color_op(color) == [kind |-> "Color", bytes |-> <<>>, value |-> color]

resolve(r, argument) ==
    IF r = 1 \/ argument = <<>> THEN none_op
    ELSE IF argument[1] = 97 THEN color_op(1)
    ELSE text_op(argument)

TokBytes == {ASCII_OPEN_BRACE, ASCII_CLOSED_BRACE, 97, 98}

RECURSIVE InputsUpTo(_)
InputsUpTo(n) ==
    IF n = 0 THEN {<<>>}
    ELSE LET shorter == InputsUpTo(n - 1)
         IN  shorter \cup {Append(i, b) : i \in {t \in shorter : Len(t) = n - 1}, b \in TokBytes}

Inputs == InputsUpTo(MaxInput)

(* ---------------------------------------------------------------------- *)
(* State of one TextStyle::layout_ops call.                                 *)
(* ---------------------------------------------------------------------- *)
VARIABLES
    style,           \* `mut self`: the TextStyle copy owned by layout_ops
    cursor,          \* `cursor: &mut Point`
    op,              \* `op`: the Op the loop of layout_ops pulled last
    ops_pulled,      \* position of the `ops` iterator
    bytes_pulled,    \* text bytes the `ops` iterator has yielded so far
    text,            \* `text` of the running layout_text call
    remaining_text,  \* `remaining_text` of layout_text
    reported,        \* the bytes the running layout_text call gave to sink.text
    span,            \* `span` of the current loop iteration of layout_text
    sink,            \* what the LayoutSink has been told so far
    result,          \* LayoutResult returned by layout_ops, "None" while running
    pc,              \* position in layout_ops / layout_text
    \* A Tokenizer turned into an Op stream by into_ops.
    input,           \* `input`: the bytes of the format string
    inner,           \* `inner`: index of the next byte the iterator yields
    arg_to_op,       \* the caller's `arg_to_op`
    tokens,          \* the Tokens next() has returned so far
    ops_out,         \* the Ops the stream of into_ops has yielded so far
    ended            \* how often next() has returned None

layout_vars ==
    <<style, cursor, op, ops_pulled, bytes_pulled, text, remaining_text, reported,
      span, sink, result, pc>>

tok_vars == <<input, inner, arg_to_op, tokens, ops_out, ended>>

vars == <<layout_vars, tok_vars>>

LineBreakings == {"BreakAtWhitespace", "BreakWordsAndInsertHyphen"}
PageBreakings == {"Cut", "CutAndInsertEllipsis"}

Styles ==
    [bounds : [x0 : {1}, y0 : {0}, x1 : {BoundsX1}, y1 : {BoundsY1}],
     text_color : {0},
     text_font : Fonts,
     line_breaking : LineBreakings,
     hyphen_font : Fonts,
     page_breaking : PageBreakings]

no_span == initial_line(1)
no_op == [kind |-> "None", value |-> 0]

\* A Tokenizer that is not in use.
tok_idle ==
    /\ input = <<>>
    /\ inner = 0
    /\ arg_to_op = 1
    /\ tokens = <<>>
    /\ ops_out = <<>>
    /\ ended = 0

\* A sink that has not been called yet.
sink_new ==
    [last |-> "none",            \* the most recent call
     before_out_of_bounds |-> "none",  \* the call right before out_of_bounds
     n_ellipsis |-> 0, n_out_of_bounds |-> 0,
     text_color |-> -1,          \* style.text_color of the last text call
     text_font |-> -1,           \* style.text_font of the last text call
     whitespace_y |-> -1]        \* cursor.y of the last text call with whitespace

has_whitespace(bytes) == \E k \in 1..Len(bytes) : is_whitespace(bytes[k])

sink_text(s, c, st, bytes) ==
    [s EXCEPT !.last = "text",
              !.text_color = st.text_color,
              !.text_font = st.text_font,
              !.whitespace_y = IF has_whitespace(bytes) THEN c.y ELSE @]

sink_hyphen(s) == [s EXCEPT !.last = "hyphen"]

sink_ellipsis(s) ==
    [s EXCEPT !.last = "ellipsis", !.n_ellipsis = @ + 1]

sink_out_of_bounds(s) ==
    [s EXCEPT !.before_out_of_bounds = s.last, !.last = "out_of_bounds",
              !.n_out_of_bounds = @ + 1]

\* A call starts with any style, the cursor anywhere on the first or the last
\* line of the bounds, and a fresh sink.
Init ==
    /\ style \in Styles
    /\ cursor \in [x : style.bounds.x0 .. style.bounds.x1,
                   y : {style.bounds.y0, style.bounds.y1}]
    /\ op = no_op
    /\ ops_pulled = 0
    /\ bytes_pulled = 0
    /\ text = <<>>
    /\ remaining_text = <<>>
    /\ reported = <<>>
    /\ span = no_span
    /\ sink = sink_new
    /\ result = "None"
    /\ pc = "ops"
    /\ tok_idle

(* ---------------------------------------------------------------------- *)
(* TextStyle::layout_ops: `for op in ops { match op { .. } }`               *)
(* ---------------------------------------------------------------------- *)
OpColor ==
    /\ pc = "ops"
    /\ ops_pulled < MaxOps
    /\ \E color \in Colors :
           /\ op' = [kind |-> "Color", value |-> color]
           /\ style' = [style EXCEPT !.text_color = color]
    /\ ops_pulled' = ops_pulled + 1
    /\ UNCHANGED <<bytes_pulled, cursor, text, remaining_text, reported, span, sink, result, pc>>
    /\ UNCHANGED tok_vars

OpFontAlsoHyphenFont ==
    /\ pc = "ops"
    /\ ops_pulled < MaxOps
    /\ \E font \in Fonts :
           /\ op' = [kind |-> "Font", value |-> font]
           /\ style' = [style EXCEPT !.text_font = font, !.hyphen_font = font]
    /\ ops_pulled' = ops_pulled + 1
    /\ UNCHANGED <<bytes_pulled, cursor, text, remaining_text, reported, span, sink, result, pc>>
    /\ UNCHANGED tok_vars

OpFont ==
    /\ pc = "ops"
    /\ ops_pulled < MaxOps
    /\ \E font \in Fonts :
           /\ op' = [kind |-> "Font", value |-> font]
           /\ style' = [style EXCEPT !.text_font = font]
    /\ ops_pulled' = ops_pulled + 1
    /\ UNCHANGED <<bytes_pulled, cursor, text, remaining_text, reported, span, sink, result, pc>>
    /\ UNCHANGED tok_vars

OpText ==
    /\ pc = "ops"
    /\ ops_pulled < MaxOps
    /\ \E t \in Texts :
           /\ bytes_pulled + Len(t) <= MaxBytes
           /\ text' = t
           /\ remaining_text' = t
           /\ bytes_pulled' = bytes_pulled + Len(t)
    /\ op' = [kind |-> "Text", value |-> 0]
    /\ reported' = <<>>
    /\ ops_pulled' = ops_pulled + 1
    /\ pc' = "text"
    /\ UNCHANGED <<style, cursor, span, sink, result>>
    /\ UNCHANGED tok_vars

\* The op stream is exhausted: `LayoutResult::Fitting`.
OpsExhausted ==
    /\ pc = "ops"
    /\ result' = "Fitting"
    /\ pc' = "done"
    /\ UNCHANGED <<style, cursor, op, ops_pulled, bytes_pulled, text, remaining_text, reported, span, sink>>
    /\ UNCHANGED tok_vars

(* ---------------------------------------------------------------------- *)
(* TextStyle::layout_text: `while !remaining_text.is_empty() { .. }`        *)
(* ---------------------------------------------------------------------- *)
\* The loop ends, layout_text returns Fitting and layout_ops goes on.
TextFitting ==
    /\ pc = "text"
    /\ remaining_text = <<>>
    /\ text' = <<>>
    /\ reported' = <<>>
    /\ pc' = "ops"
    /\ UNCHANGED <<style, cursor, op, ops_pulled, bytes_pulled, remaining_text, span, sink, result>>
    /\ UNCHANGED tok_vars

FitSpan ==
    /\ pc = "text"
    /\ remaining_text # <<>>
    /\ span' = fit_horizontally(remaining_text, style.bounds.x1 - cursor.x,
                                style.text_font, style.hyphen_font, style.line_breaking)
    /\ pc' = "report"
    /\ UNCHANGED <<style, cursor, op, ops_pulled, bytes_pulled, text, remaining_text, reported, sink, result>>
    /\ UNCHANGED tok_vars

\* Report the span, continue with the rest, advance the cursor horizontally.
\* A slice out of range panics.
ReportSpan ==
    /\ pc = "report"
    /\ IF span.length + span.skip_next_chars <= Len(remaining_text)
       THEN /\ sink' = sink_text(sink, cursor, style,
                                  SubSeq(remaining_text, 1, span.length))
            /\ reported' = reported \o SubSeq(remaining_text, 1, span.length)
            /\ remaining_text' = SubSeq(remaining_text,
                                        span.length + span.skip_next_chars + 1,
                                        Len(remaining_text))
            /\ cursor' = [cursor EXCEPT !.x = @ + span.advance.x]
            /\ pc' = "advance"
            /\ UNCHANGED result
       ELSE /\ result' = "Panic"
            /\ pc' = "done"
            /\ UNCHANGED <<sink, remaining_text, reported, cursor>>
    /\ UNCHANGED <<style, op, ops_pulled, bytes_pulled, text, span>>
    /\ UNCHANGED tok_vars

\* `span.advance.y > 0` is false: stay on the line. The iteration ends and
\* its local `span` goes out of scope.
SameLine ==
    /\ pc = "advance"
    /\ ~(span.advance.y > 0)
    /\ span' = no_span
    /\ pc' = "text"
    /\ UNCHANGED <<style, cursor, op, ops_pulled, bytes_pulled, text, remaining_text, reported, sink, result>>
    /\ UNCHANGED tok_vars

LineBreakWithHyphen ==
    /\ pc = "advance"
    /\ span.advance.y > 0
    /\ span.insert_hyphen_before_line_break
    /\ sink' = sink_hyphen(sink)
    /\ pc' = "vertical"
    /\ UNCHANGED <<style, cursor, op, ops_pulled, bytes_pulled, text, remaining_text, reported, span, result>>
    /\ UNCHANGED tok_vars

LineBreakHyphenAnyway ==
    /\ pc = "advance"
    /\ span.advance.y > 0
    /\ ~span.insert_hyphen_before_line_break
    /\ sink' = sink_hyphen(sink)
    /\ pc' = "vertical"
    /\ UNCHANGED <<style, cursor, op, ops_pulled, bytes_pulled, text, remaining_text, reported, span, result>>
    /\ UNCHANGED tok_vars

LineBreakWithoutHyphen ==
    /\ pc = "advance"
    /\ span.advance.y > 0
    /\ ~span.insert_hyphen_before_line_break
    /\ pc' = "vertical"
    /\ UNCHANGED <<style, cursor, op, ops_pulled, bytes_pulled, text, remaining_text, reported, span, sink, result>>
    /\ UNCHANGED tok_vars

out_of_vertical_space == cursor.y + span.advance.y > style.bounds.y1

should_append_ellipsis ==
    /\ style.page_breaking = "CutAndInsertEllipsis"
    /\ ~span.insert_hyphen_before_line_break

AppendEllipsis ==
    /\ pc = "vertical"
    /\ out_of_vertical_space
    /\ remaining_text # <<>>
    /\ should_append_ellipsis
    /\ sink' = sink_ellipsis(sink)
    /\ pc' = "out_of_bounds"
    /\ UNCHANGED <<style, cursor, op, ops_pulled, bytes_pulled, text, remaining_text, reported, span, result>>
    /\ UNCHANGED tok_vars

NoEllipsis ==
    /\ pc = "vertical"
    /\ out_of_vertical_space
    /\ ~(remaining_text # <<>> /\ should_append_ellipsis)
    /\ pc' = "out_of_bounds"
    /\ UNCHANGED <<style, cursor, op, ops_pulled, bytes_pulled, text, remaining_text, reported, span, sink, result>>
    /\ UNCHANGED tok_vars

\* Report we are out of bounds and quit: layout_text and layout_ops return.
OutOfBoundsKeepGoing ==
    /\ pc = "out_of_bounds"
    /\ sink' = sink_out_of_bounds(sink)
    /\ pc' = "ops"
    /\ UNCHANGED <<style, cursor, op, ops_pulled, bytes_pulled, text, remaining_text, reported, span, result>>
    /\ UNCHANGED tok_vars

OutOfBounds ==
    /\ pc = "out_of_bounds"
    /\ sink' = sink_out_of_bounds(sink)
    /\ result' = "OutOfBounds"
    /\ pc' = "done"
    /\ UNCHANGED <<style, cursor, op, ops_pulled, bytes_pulled, text, remaining_text, reported, span>>
    /\ UNCHANGED tok_vars

NextLineKeepsX ==
    /\ pc = "vertical"
    /\ ~out_of_vertical_space
    /\ cursor' = [cursor EXCEPT !.y = @ + span.advance.y]
    /\ span' = no_span
    /\ pc' = "text"
    /\ UNCHANGED <<style, op, ops_pulled, bytes_pulled, text, remaining_text, reported, sink, result>>
    /\ UNCHANGED tok_vars

\* Advance the cursor to the beginning of the next line. The iteration ends
\* and its local `span` goes out of scope.
NextLine ==
    /\ pc = "vertical"
    /\ ~out_of_vertical_space
    /\ cursor' = [x |-> style.bounds.x0, y |-> cursor.y + span.advance.y]
    /\ span' = no_span
    /\ pc' = "text"
    /\ UNCHANGED <<style, op, ops_pulled, bytes_pulled, text, remaining_text, reported, sink, result>>
    /\ UNCHANGED tok_vars

Next ==
    \/ OpColor
    \/ OpFont
    \/ OpText
    \/ OpsExhausted
    \/ TextFitting
    \/ FitSpan
    \/ ReportSpan
    \/ SameLine
    \/ LineBreakWithHyphen
    \/ LineBreakWithoutHyphen
    \/ AppendEllipsis
    \/ NoEllipsis
    \/ OutOfBounds
    \/ NextLine

Spec == Init /\ [][Next]_vars

TypeOK ==
    /\ pc \in {"ops", "text", "report", "advance", "vertical", "out_of_bounds", "done"}
    /\ result \in {"None", "Fitting", "OutOfBounds", "Panic"}
    /\ remaining_text \in Texts
    /\ ops_pulled \in 0..MaxOps
    /\ op.kind \in {"None", "Color", "Font", "Text"}
    /\ bytes_pulled \in 0..MaxBytes

(* ---------------------------------------------------------------------- *)
(* Tokenizer::into_ops: the Op stream `self.filter_map(..)`.  Each action   *)
(* is one call of next() by the stream and the closure applied to its       *)
(* token.                                                                   *)
(* ---------------------------------------------------------------------- *)
\* A layout that is not running.
layout_idle ==
    /\ style = [bounds |-> [x0 |-> 1, y0 |-> 0, x1 |-> BoundsX1, y1 |-> BoundsY1],
                text_color |-> 0, text_font |-> 1,
                line_breaking |-> "BreakAtWhitespace", hyphen_font |-> 1,
                page_breaking |-> "Cut"]
    /\ cursor = [x |-> 1, y |-> 0]
    /\ op = no_op
    /\ ops_pulled = 0
    /\ bytes_pulled = 0
    /\ text = <<>>
    /\ remaining_text = <<>>
    /\ reported = <<>>
    /\ span = no_span
    /\ sink = sink_new
    /\ result = "None"
    /\ pc = "ops"

\* `Tokenizer::new(format).into_ops(arg_to_op)`
TokInit ==
    /\ layout_idle
    /\ input \in Inputs
    /\ inner = 0
    /\ arg_to_op \in Resolvers
    /\ tokens = <<>>
    /\ ops_out = <<>>
    /\ ended = 0

\* `Token::Literal(literal) => Some(Op::Text(literal))`
NextLiteral ==
    LET r == tokenizer_next(input, inner)
    IN  /\ ended < MaxEnded
        /\ r.token.kind = "Literal"
        /\ inner' = r.inner
        /\ tokens' = Append(tokens, r.token)
        /\ ops_out' = Append(ops_out, text_op(r.token.bytes))
        /\ UNCHANGED <<input, arg_to_op, ended>>
        /\ UNCHANGED layout_vars

\* `Token::Argument(argument) => arg_to_op(argument)`, which is Some(op).
NextArgumentResolved ==
    LET r == tokenizer_next(input, inner)
    IN  /\ ended < MaxEnded
        /\ r.token.kind = "Argument"
        /\ resolve(arg_to_op, r.token.bytes) # none_op
        /\ inner' = r.inner
        /\ tokens' = Append(tokens, r.token)
        /\ ops_out' = Append(ops_out, resolve(arg_to_op, r.token.bytes))
        /\ UNCHANGED <<input, arg_to_op, ended>>
        /\ UNCHANGED layout_vars

NextArgumentUnresolvedAsText ==
    LET r == tokenizer_next(input, inner)
    IN  /\ ended < MaxEnded
        /\ r.token.kind = "Argument"
        /\ resolve(arg_to_op, r.token.bytes) = none_op
        /\ inner' = r.inner
        /\ tokens' = Append(tokens, r.token)
        /\ ops_out' = Append(ops_out, text_op(r.token.bytes))
        /\ UNCHANGED <<input, arg_to_op, ended>>
        /\ UNCHANGED layout_vars

\* `Token::Argument(argument) => arg_to_op(argument)`, which is None: the
\* stream yields nothing for this token.
NextArgumentUnresolved ==
    LET r == tokenizer_next(input, inner)
    IN  /\ ended < MaxEnded
        /\ r.token.kind = "Argument"
        /\ resolve(arg_to_op, r.token.bytes) = none_op
        /\ inner' = r.inner
        /\ tokens' = Append(tokens, r.token)
        /\ UNCHANGED <<input, arg_to_op, ops_out, ended>>
        /\ UNCHANGED layout_vars

\* next() returns None: the stream ends.
NextNone ==
    LET r == tokenizer_next(input, inner)
    IN  /\ ended < MaxEnded
        /\ r.token.kind = "None"
        /\ inner' = r.inner
        /\ ended' = ended + 1
        /\ UNCHANGED <<input, arg_to_op, tokens, ops_out>>
        /\ UNCHANGED layout_vars

TokNext ==
    \/ NextLiteral
    \/ NextArgumentResolved
    \/ NextArgumentUnresolved
    \/ NextNone

TokSpec == TokInit /\ [][TokNext]_vars

(* ---------------------------------------------------------------------- *)
(* Properties.  At pc = "report" the variables still hold the arguments of  *)
(* the fit_horizontally call that produced `span`.                          *)
(* ---------------------------------------------------------------------- *)
fit_max_width == style.bounds.x1 - cursor.x
fit_hyphen_width == text_width_byte(style.hyphen_font, ASCII_HYPHEN)
prefix_width(k) == text_width(style.text_font, SubSeq(remaining_text, 1, k))
is_separator(ch) == ch \in {32, 10, 13}
is_hard_break(ch) == ch \in {10, 13}

\* 1-based positions of remaining_text holding a visible byte that does not
\* fit the width budget together with everything before it.
overflowing_positions ==
    {k \in 1..Len(remaining_text) :
        ~is_separator(remaining_text[k]) /\ prefix_width(k) > fit_max_width}

hard_break_positions ==
    {k \in 1..Len(remaining_text) : is_hard_break(remaining_text[k])}

Min(S) == CHOOSE k \in S : \A j \in S : k <= j
Max(S) == CHOOSE k \in S : \A j \in S : k >= j

\* 1-based position at which the scan returns early, 0 if it runs to the end.
scan_stop ==
    LET stops == overflowing_positions \cup hard_break_positions
    IN  IF stops = {} THEN 0 ELSE Min(stops)

\* C1 (as stated): when a layout_ops call with CutAndInsertEllipsis returns
\* OutOfBounds and the overflowing span was not hyphen-flagged, sink.ellipsis
\* was called exactly once and is the call right before sink.out_of_bounds.
C1_EllipsisBeforeOverflow ==
    (/\ pc = "done"
     /\ result = "OutOfBounds"
     /\ style.page_breaking = "CutAndInsertEllipsis"
     /\ ~span.insert_hyphen_before_line_break)
    => (/\ sink.n_ellipsis = 1
        /\ sink.last = "out_of_bounds"
        /\ sink.before_out_of_bounds = "ellipsis")

\* C2: layout_ops returns OutOfBounds iff sink.out_of_bounds was called; it is
\* called at most once, is the last sink call, and after it no op is pulled,
\* no sink call is made and the cursor is not modified; a run that ends
\* without overflow returns Fitting.
C2_OutOfBoundsStops ==
    /\ [](/\ (result = "OutOfBounds") <=> (sink.n_out_of_bounds > 0)
          /\ sink.n_out_of_bounds <= 1
          /\ sink.n_out_of_bounds > 0 => (sink.last = "out_of_bounds" /\ pc = "done")
          /\ (pc = "done" /\ sink.n_out_of_bounds = 0) => result = "Fitting"
          /\ result = "Fitting" => pc = "done")
    /\ [][sink.n_out_of_bounds > 0 =>
            (ops_pulled' = ops_pulled /\ cursor' = cursor /\ sink' = sink)]_vars

C2_Witness ==
    /\ pc = "done"
    /\ result = "OutOfBounds"
    /\ sink.n_out_of_bounds = 1
    /\ sink.last = "out_of_bounds"
    /\ ops_pulled < MaxOps

whole_text_fits ==
    /\ span.length = Len(remaining_text)
    /\ span.advance.y = 0
    /\ ~span.insert_hyphen_before_line_break

\* C3 (as stated): a text whose total rendered width is <= max_width is
\* returned whole: length == text.len(), advance.y == 0, no hyphen.
C3_FittingTextIsWhole ==
    (pc = "report" /\ prefix_width(Len(remaining_text)) <= fit_max_width)
    => whole_text_fits

\* C3 (amended): a text without LF and CR bytes whose total rendered width is
\* <= max_width is returned whole: length == text.len(), advance.y == 0, no
\* hyphen, for every breaking policy.
C3_FittingTextWithoutHardBreakIsWhole ==
    (/\ pc = "report"
     /\ hard_break_positions = {}
     /\ prefix_width(Len(remaining_text)) <= fit_max_width)
    => whole_text_fits

C3_Witness ==
    /\ pc = "report"
    /\ hard_break_positions = {}
    /\ Len(remaining_text) >= 2
    /\ \E k \in 1..Len(remaining_text) : remaining_text[k] = 32
    /\ prefix_width(Len(remaining_text)) = fit_max_width
    /\ whole_text_fits

\* C4 (as stated): for max_width >= 0 the reported prefix fits: the width of
\* text[..length], which equals advance.x, is at most max_width.
C4_ReportedPrefixFits ==
    (pc = "report" /\ fit_max_width >= 0)
    => (/\ span.length <= Len(remaining_text)
        /\ prefix_width(span.length) = span.advance.x
        /\ span.advance.x <= fit_max_width)

\* C5 (as stated): length == 0 only when the first byte of the text is wider
\* than max_width.
C5_ZeroLengthOnlyIfFirstByteTooWide ==
    (pc = "report" /\ span.length = 0)
    => (/\ remaining_text # <<>>
        /\ text_width_byte(style.text_font, remaining_text[1]) > fit_max_width)

\* C5 (amended): length == 0 only when the text is empty, or its first byte is
\* a space, LF or CR, or the first byte together with a hyphen is wider than
\* max_width.
C5_ZeroLengthOnlyIfNoHyphenatedByteFits ==
    (pc = "report" /\ span.length = 0)
    => \/ remaining_text = <<>>
       \/ is_separator(remaining_text[1])
       \/ text_width_byte(style.text_font, remaining_text[1]) + fit_hyphen_width
              > fit_max_width

C5_Witness ==
    /\ pc = "report"
    /\ span.length = 0
    /\ remaining_text # <<>>
    /\ ~is_separator(remaining_text[1])
    /\ text_width_byte(style.text_font, remaining_text[1]) <= fit_max_width
    /\ text_width_byte(style.text_font, remaining_text[1]) + fit_hyphen_width
           > fit_max_width

\* C6: every Span satisfies length + skip_next_chars <= text.len(), so the
\* two slices of layout_text are never out of range (no panic).
C6_SpanWithinText ==
    /\ pc = "report" => span.length + span.skip_next_chars <= Len(remaining_text)
    /\ result # "Panic"

C6_Witness ==
    /\ pc = "report"
    /\ span.skip_next_chars = 1
    /\ span.length >= 1
    /\ span.length + span.skip_next_chars = Len(remaining_text)

single_word_too_wide ==
    /\ pc = "report"
    /\ style.line_breaking = "BreakWordsAndInsertHyphen"
    /\ \A k \in 1..Len(remaining_text) : ~is_separator(remaining_text[k])
    /\ prefix_width(Len(remaining_text)) > fit_max_width

\* The span is a hyphenated break after the largest k >= 1 for which
\* width(text[..k]) + hyphen width <= max_width.
hyphen_break_at_last_fit ==
    /\ span.insert_hyphen_before_line_break
    /\ span.skip_next_chars = 0
    /\ span.advance.y = line_height(style.text_font)
    /\ span.length \in 1..Len(remaining_text)
    /\ prefix_width(span.length) + fit_hyphen_width <= fit_max_width
    /\ \A j \in (span.length + 1)..Len(remaining_text) :
           prefix_width(j) + fit_hyphen_width > fit_max_width

\* C7 (as stated): with BreakWordsAndInsertHyphen a single word wider than
\* max_width is broken mid-word with a hyphen at the largest k such that
\* width(text[..k]) + hyphen width <= max_width.
C7_WordBrokenAtLastHyphenFit ==
    single_word_too_wide => hyphen_break_at_last_fit

\* C7 (amended): the same, provided the first byte together with the hyphen
\* fits max_width.
C7_WordBrokenAtLastHyphenFitIfAny ==
    (/\ single_word_too_wide
     /\ text_width_byte(style.text_font, remaining_text[1]) + fit_hyphen_width
            <= fit_max_width)
    => hyphen_break_at_last_fit

C7_Witness ==
    /\ single_word_too_wide
    /\ span.length >= 1
    /\ span.length + 1 < Len(remaining_text)
    /\ prefix_width(span.length + 1) <= fit_max_width
    /\ hyphen_break_at_last_fit

\* The scan stops at a visible byte that exceeds the budget, after at least
\* one space.
overflow_after_space ==
    /\ pc = "report"
    /\ scan_stop \in overflowing_positions
    /\ \E k \in 1..(scan_stop - 1) : remaining_text[k] = 32

last_space_before_stop ==
    Max({k \in 1..(scan_stop - 1) : remaining_text[k] = 32})

\* C8: with BreakAtWhitespace, when the scan hits a visible byte that exceeds
\* the budget after a space, the span breaks before the most recent space:
\* length == its index, skip_next_chars == 1, no hyphen, advance.y == line
\* height.
C8_BreakBeforeLastSpace ==
    (overflow_after_space /\ style.line_breaking = "BreakAtWhitespace")
    => (/\ span.length = last_space_before_stop - 1
        /\ span.skip_next_chars = 1
        /\ ~span.insert_hyphen_before_line_break
        /\ span.advance.y = line_height(style.text_font))

\* A hyphenation point after the space fits, and is not taken.
C8_Witness ==
    /\ overflow_after_space
    /\ style.line_breaking = "BreakAtWhitespace"
    /\ last_space_before_stop + 1 < scan_stop
    /\ prefix_width(scan_stop - 1) + fit_hyphen_width <= fit_max_width
    /\ span.length = last_space_before_stop - 1
    /\ span.skip_next_chars = 1

\* C9 (as stated): with BreakAtWhitespace, sink.hyphen is called only on a
\* line on which no whitespace byte has been laid out.
C9_HyphenOnlyWithoutWhitespaceOnLine ==
    (/\ pc = "vertical"
     /\ sink.last = "hyphen"
     /\ style.line_breaking = "BreakAtWhitespace")
    => cursor.y # sink.whitespace_y

\* The scan reaches a LF or CR: no visible byte before it exceeds the budget.
scan_reaches_hard_break ==
    /\ pc = "report"
    /\ scan_stop \in hard_break_positions

\* C10: when the scan reaches a LF at index i it returns length == i,
\* skip_next_chars == 1, no hyphen, advance.y == line_height(); at a CR
\* likewise with advance.y == line_height() / 2; the bytes after it do not
\* influence the result.
C10_HardBreakReturnsImmediately ==
    scan_reaches_hard_break
    => (/\ span.length = scan_stop - 1
        /\ span.skip_next_chars = 1
        /\ ~span.insert_hyphen_before_line_break
        /\ span.advance.y = IF remaining_text[scan_stop] = 10
                            THEN line_height(style.text_font)
                            ELSE line_height(style.text_font) \div 2
        /\ span = fit_horizontally(SubSeq(remaining_text, 1, scan_stop),
                                   fit_max_width, style.text_font,
                                   style.hyphen_font, style.line_breaking))

\* A CR after a hyphenation point, with bytes following it.
C10_Witness ==
    /\ scan_reaches_hard_break
    /\ remaining_text[scan_stop] = 13
    /\ scan_stop >= 2
    /\ scan_stop < Len(remaining_text)
    /\ prefix_width(1) + fit_hyphen_width <= fit_max_width
    /\ span.length = scan_stop - 1
    /\ span.advance.y = line_height(style.text_font) \div 2

\* C11 (as stated): with a positive line height a Span is either a same-line
\* continuation (advance.y == 0) covering the whole input with no skip and no
\* hyphen, or a line break (advance.y > 0); a Span that leaves input
\* unconsumed or skips a byte has advance.y > 0.
C11_ContinuationOrLineBreak ==
    (pc = "report" /\ line_height(style.text_font) > 0)
    => (/\ span.advance.y >= 0
        /\ span.advance.y = 0 =>
               (/\ span.length = Len(remaining_text)
                /\ span.skip_next_chars = 0
                /\ ~span.insert_hyphen_before_line_break)
        /\ (span.length < Len(remaining_text) \/ span.skip_next_chars > 0) =>
               span.advance.y > 0)

\* C12: processing Op::Color or Op::Font makes no sink call, leaves the
\* cursor alone and changes nothing of the style but the text color,
\* respectively the text font, which it sets to the op's value; no other step
\* changes the style, and every sink.text call sees the style's current text
\* color and font, hence the most recently set ones.
C12_ColorAndFontOps ==
    [][/\ (pc = "ops" /\ pc' = "ops") =>
              (/\ sink' = sink
               /\ cursor' = cursor
               /\ op'.kind \in {"Color", "Font"}
               /\ op'.kind = "Color" => style' = [style EXCEPT !.text_color = op'.value]
               /\ op'.kind = "Font" => style' = [style EXCEPT !.text_font = op'.value])
       /\ ~(pc = "ops" /\ pc' = "ops") => style' = style
       /\ (pc = "report" /\ pc' = "advance") =>
              (/\ sink'.last = "text"
               /\ sink'.text_color = style.text_color
               /\ sink'.text_font = style.text_font)]_vars

\* A text call that sees the color set by an earlier Op::Color.
C12_Witness ==
    /\ pc = "advance"
    /\ ops_pulled = 2
    /\ op.kind = "Text"
    /\ sink.last = "text"
    /\ sink.text_color = 1
    /\ style.text_color = 1

(* ---------------------------------------------------------------------- *)
(* Properties of the Tokenizer and of into_ops.                             *)
(* ---------------------------------------------------------------------- *)
\* The text a token sequence was cut from: Literal payloads as they are,
\* Argument payloads wrapped in braces.
RECURSIVE untokenize(_)
untokenize(toks) ==
    IF toks = <<>> THEN <<>>
    ELSE (IF Head(toks).kind = "Argument"
          THEN <<123>> \o Head(toks).bytes \o <<125>>
          ELSE Head(toks).bytes) \o untokenize(Tail(toks))

\* 1-based positions of a '{' with no '}' anywhere after it.
unclosed_positions ==
    {p \in 1..Len(input) :
        input[p] = 123 /\ \A q \in (p + 1)..Len(input) : input[q] # 125}

\* "Nice to meet {you}, where you been?"
doc_example ==
    <<78, 105, 99, 101, 32, 116, 111, 32, 109, 101, 101, 116,
      32, 123, 121, 111, 117, 125, 44, 32, 119, 104, 101, 114,
      101, 32, 121, 111, 117, 32, 98, 101, 101, 110, 63>>

doc_example_tokens ==
    <<[kind |-> "Literal",
       bytes |-> <<78, 105, 99, 101, 32, 116, 111, 32, 109, 101, 101, 116,
                   32>>],
      [kind |-> "Argument", bytes |-> <<121, 111, 117>>],
      [kind |-> "Literal",
       bytes |-> <<44, 32, 119, 104, 101, 114, 101, 32, 121, 111, 117, 32,
                   98, 101, 101, 110, 63>>]>>

\* C13: when no argument is left unclosed, the tokens come in source order
\* and lose nothing: untokenizing the tokens returned so far gives the input
\* up to the iterator, and the whole input once next() has returned None; the
\* example of the documentation yields exactly its three tokens.
C13_TokensReproduceInput ==
    /\ unclosed_positions = {} =>
           (/\ inner <= Len(input)
            /\ untokenize(tokens) = SubSeq(input, 1, inner)
            /\ ended > 0 => untokenize(tokens) = input)
    /\ tokens = <<>> => tokens_from(doc_example, 0) = doc_example_tokens

\* A closed argument between two literals, all returned.
C13_Witness ==
    /\ unclosed_positions = {}
    /\ ended > 0
    /\ Len(tokens) = 3
    /\ tokens[1].kind = "Literal"
    /\ tokens[2].kind = "Argument"
    /\ tokens[2].bytes # <<>>
    /\ tokens[3].kind = "Literal"
    /\ untokenize(tokens) = input

\* The `{` at which the tokenizer runs into the end of the input.
first_unclosed == Min(unclosed_positions)

\* C14: if the input ends inside an argument, the tokens returned are exactly
\* those of the input before the `{` of that argument; then next() returns
\* None, and so does every later call: nothing more is returned or yielded.
C14_UnterminatedArgumentEndsStream ==
    /\ [](unclosed_positions # {} =>
              (/\ Len(untokenize(tokens)) <= first_unclosed - 1
               /\ ended > 0 =>
                      (/\ untokenize(tokens) = SubSeq(input, 1, first_unclosed - 1)
                       /\ tokens = tokens_from(SubSeq(input, 1, first_unclosed - 1), 0)
                       /\ inner = Len(input))))
    /\ [][ended > 0 => (tokens' = tokens /\ ops_out' = ops_out /\ ended' > ended)]_vars

\* A literal, then an unterminated argument with content, and two calls of
\* next() after the end.
C14_Witness ==
    /\ unclosed_positions # {}
    /\ first_unclosed >= 2
    /\ first_unclosed < Len(input)
    /\ ended = 2
    /\ Len(tokens) = 1
    /\ tokens[1].kind = "Literal"

\* C15 (as stated): no Literal token contains a brace byte, `{` or `}`.
C15_LiteralsWithoutBraces ==
    \A k \in 1..Len(tokens) :
        tokens[k].kind = "Literal" =>
            \A j \in 1..Len(tokens[k].bytes) : tokens[k].bytes[j] \notin {123, 125}

\* C15 (amended): no Literal token contains a `{`; a `}` outside an argument
\* is part of the Literal around it.
C15_LiteralsWithoutOpenBrace ==
    \A k \in 1..Len(tokens) :
        tokens[k].kind = "Literal" =>
            \A j \in 1..Len(tokens[k].bytes) : tokens[k].bytes[j] # 123

\* A Literal next to an argument, with a `}` of its own.
C15_Witness ==
    /\ Len(tokens) >= 2
    /\ \E k \in 1..Len(tokens) :
           /\ tokens[k].kind = "Literal"
           /\ \E j \in 1..Len(tokens[k].bytes) : tokens[k].bytes[j] = 125
    /\ \E k \in 1..Len(tokens) : tokens[k].kind = "Argument"

\* The ops of a token sequence: a Text per Literal, the resolver's op per
\* resolved Argument, nothing per unresolved Argument.
RECURSIVE filter_map(_)
filter_map(toks) ==
    IF toks = <<>> THEN <<>>
    ELSE LET t == Head(toks)
             r == IF arg_to_op = 1 \/ t.bytes = <<>>
                  THEN <<>>
                  ELSE IF t.bytes[1] = 97
                  THEN <<[kind |-> "Color", bytes |-> <<>>, value |-> 1]>>
                  ELSE <<[kind |-> "Text", bytes |-> t.bytes, value |-> 0]>>
         IN  (IF t.kind = "Literal"
              THEN <<[kind |-> "Text", bytes |-> t.bytes, value |-> 0]>>
              ELSE r) \o filter_map(Tail(toks))

\* C16: the ops yielded are the order-preserving filter-map of the tokens:
\* Op::Text(b) for Literal(b), arg_to_op(a) for Argument(a) when it is Some
\* and nothing when it is None, and no other op; so an unresolved placeholder
\* reaches layout_ops as no op at all.
C16_IntoOpsIsFilterMap ==
    /\ ops_out = filter_map(tokens)
    /\ Len(ops_out) <= Len(tokens)

\* An unresolved argument between two literals.
C16_Witness ==
    /\ Len(tokens) = 3
    /\ tokens[1].kind = "Literal"
    /\ tokens[2].kind = "Argument"
    /\ tokens[3].kind = "Literal"
    /\ Len(ops_out) = 2
    /\ ops_out[2].bytes = tokens[3].bytes

(* ---------------------------------------------------------------------- *)
(* Termination of layout_text                                               *)
(* ---------------------------------------------------------------------- *)
\* The control points of the `while` loop of layout_text.
loop_pcs == {"text", "report", "advance", "vertical", "out_of_bounds"}

\* Bytes the loop has still to consume: between the fit and the end of the
\* iteration the bytes of the current span count as not yet consumed.
bytes_to_consume ==
    CASE pc \in {"text", "report"} -> Len(remaining_text)
      [] pc \in {"advance", "vertical"} ->
             Len(remaining_text) + span.length + span.skip_next_chars
      [] OTHER -> 0

\* Rows left between the cursor and the bottom bound.
rows_left == style.bounds.y1 - cursor.y

\* Steps left inside one iteration.
steps_left ==
    CASE pc = "text" -> 4
      [] pc = "report" -> 3
      [] pc = "advance" -> 2
      [] pc = "vertical" -> 1
      [] OTHER -> 0

\* Lexicographic measure (bytes_to_consume, rows_left, steps_left).
loop_measure ==
    (bytes_to_consume * (style.bounds.y1 - style.bounds.y0 + 1) + rows_left) * 5
        + steps_left

\* C17: layout_text terminates when the line height is positive: every span
\* consumes at least one byte or is the zero-length, zero-skip span with a full
\* line height of advance; the measure (bytes to consume, rows left, steps left
\* in the iteration) is never negative and strictly decreases with every step
\* of the loop, so the loop is left after finitely many steps, and it is left
\* with Fitting or OutOfBounds, never with a panic.
C17_LayoutTextTerminates ==
    /\ [](pc \in loop_pcs => loop_measure >= 0)
    /\ [](result \in {"None", "Fitting", "OutOfBounds"})
    /\ [](pc \in {"report", "advance", "vertical"} =>
              \/ span.length + span.skip_next_chars >= 1
              \/ /\ span.length = 0
                 /\ span.skip_next_chars = 0
                 /\ span.advance.y = line_height(style.text_font)
                 /\ span.advance.y > 0)
    /\ [][(pc \in loop_pcs /\ pc' \in loop_pcs) => loop_measure' < loop_measure]_vars
    /\ [][(pc \in loop_pcs /\ pc' \notin loop_pcs) =>
              \/ pc = "text" /\ remaining_text = <<>> /\ pc' = "ops"
              \/ pc = "out_of_bounds" /\ pc' = "done" /\ result' = "OutOfBounds"]_vars
    /\ [][(pc = "vertical" /\ pc' = "text"
           /\ span.length + span.skip_next_chars = 0) =>
              cursor'.y = cursor.y + line_height(style.text_font)]_vars

\* The first byte is wider than the whole bounding box: the cursor is at the
\* left edge, has already moved down, nothing has been consumed, and the span
\* is again the zero-length one, with room for one more line.
C17_Witness ==
    /\ pc = "vertical"
    /\ span.length = 0
    /\ span.skip_next_chars = 0
    /\ remaining_text = text
    /\ text_width_byte(style.text_font, text[1]) > style.bounds.x1 - style.bounds.x0
    /\ cursor.x = style.bounds.x0
    /\ cursor.y > style.bounds.y0
    /\ cursor.y + span.advance.y <= style.bounds.y1

(* ---------------------------------------------------------------------- *)
(* Visible content                                                          *)
(* ---------------------------------------------------------------------- *)
is_visible(ch) == ~is_separator(ch)

\* The bytes of the current Op::Text consumed so far.
consumed == SubSeq(text, 1, Len(text) - Len(remaining_text))

\* r is t with some of its separator bytes removed.
RECURSIVE is_thinned(_, _)
is_thinned(r, t) ==
    IF t = <<>> THEN r = <<>>
    ELSE \/ r # <<>> /\ Head(r) = Head(t) /\ is_thinned(Tail(r), Tail(t))
         \/ is_separator(Head(t)) /\ is_thinned(r, Tail(t))

\* C18: layout_text never drops visible content: the remaining text is a
\* suffix of the text; the bytes passed to sink.text so far, in call order, are
\* the consumed prefix with some separator bytes removed, so its visible bytes
\* are reported once each and in order; this holds when the loop ends with the
\* whole text consumed (Fitting) and when it returns OutOfBounds; and every
\* byte a span skips is a space, LF or CR.
C18_NoVisibleContentDropped ==
    /\ [](Len(remaining_text) <= Len(text))
    /\ [](text = consumed \o remaining_text)
    /\ [](is_thinned(reported, consumed))
    /\ [](SelectSeq(reported, is_visible) = SelectSeq(consumed, is_visible))
    /\ []((pc = "text" /\ remaining_text = <<>>) => is_thinned(reported, text))
    /\ [](result = "OutOfBounds" => is_thinned(reported, consumed))
    /\ [][(pc = "report" /\ pc' = "advance") =>
              /\ reported' = reported \o SubSeq(remaining_text, 1, span.length)
              /\ \A k \in (span.length + 1)..(span.length + span.skip_next_chars) :
                     is_separator(remaining_text[k])]_vars

\* A text of two words and a separator has been laid out in full in more than
\* one sink.text call, the separator skipped.
C18_Witness ==
    /\ pc = "text"
    /\ remaining_text = <<>>
    /\ Len(text) = 3
    /\ is_visible(text[1])
    /\ is_separator(text[2])
    /\ is_visible(text[3])
    /\ reported = <<text[1], text[3]>>

(* ---------------------------------------------------------------------- *)
(* Cursor                                                                   *)
(* ---------------------------------------------------------------------- *)
\* The step is the line break of layout_text that does not overflow.
line_break_within_bounds ==
    /\ pc = "vertical"
    /\ span.advance.y > 0
    /\ cursor.y + span.advance.y <= style.bounds.y1

\* The step is the line break of layout_text that overflows.
line_break_overflowing ==
    /\ pc = "vertical"
    /\ cursor.y + span.advance.y > style.bounds.y1

\* C19: started at or above bounds.y1, cursor.y stays at or above bounds.y1
\* and never decreases; it changes only on a line break that does not
\* overflow, which adds the span's vertical advance and leaves cursor.x at
\* bounds.x0; the overflowing break, and the out-of-bounds report after it,
\* leave the cursor alone.
C19_CursorInvariant ==
    /\ [](cursor.y <= style.bounds.y1)
    /\ [][cursor'.y >= cursor.y]_vars
    /\ [][cursor'.y # cursor.y => line_break_within_bounds]_vars
    /\ [][line_break_within_bounds =>
              /\ cursor'.y = cursor.y + span.advance.y
              /\ cursor'.y > cursor.y
              /\ cursor'.x = style.bounds.x0]_vars
    /\ [][(line_break_overflowing \/ pc = "out_of_bounds") => cursor' = cursor]_vars

\* A line break within bounds has moved the cursor, which had advanced
\* horizontally, down and back to the left edge.
C19_Witness ==
    /\ pc = "text"
    /\ reported # <<>>
    /\ remaining_text # <<>>
    /\ sink.last \in {"text", "hyphen"}
    /\ cursor.x = style.bounds.x0
    /\ cursor.y > style.bounds.y0
    /\ cursor.y < style.bounds.y1

(* ---------------------------------------------------------------------- *)
(* Hyphen placement                                                         *)
(* ---------------------------------------------------------------------- *)
\* C20: a hyphen is only placed inside a word with content still to come: a
\* hyphen-flagged Span has 1 <= length < text.len(), skips nothing, lies
\* between two non-separator bytes and leaves room for the hyphen glyph;
\* sink.hyphen is called only for such a Span, and when it is called the
\* remaining text is not empty, starts with a non-separator byte, follows a
\* reported non-separator byte, and cursor.x + hyphen width <= bounds.x1.
C20_HyphenInsideWord ==
    /\ []((pc = "report" /\ span.insert_hyphen_before_line_break) =>
              /\ 1 <= span.length
              /\ span.length < Len(remaining_text)
              /\ span.skip_next_chars = 0
              /\ is_visible(remaining_text[span.length])
              /\ is_visible(remaining_text[span.length + 1])
              /\ span.advance.y > 0
              /\ span.advance.x + fit_hyphen_width <= fit_max_width)
    /\ []((pc = "vertical" /\ sink.last = "hyphen") =>
              /\ span.insert_hyphen_before_line_break
              /\ remaining_text # <<>>
              /\ is_visible(remaining_text[1])
              /\ reported # <<>>
              /\ is_visible(reported[Len(reported)])
              /\ cursor.x + fit_hyphen_width <= style.bounds.x1)
    /\ [][sink'.last = "hyphen" =>
              \/ sink.last = "hyphen"
              \/ /\ pc = "advance"
                 /\ span.insert_hyphen_before_line_break
                 /\ remaining_text # <<>>]_vars

\* sink.hyphen has been called with the hyphen ending exactly at bounds.x1 and
\* more of the word to come.
C20_Witness ==
    /\ pc = "vertical"
    /\ sink.last = "hyphen"
    /\ span.insert_hyphen_before_line_break
    /\ Len(remaining_text) >= 2
    /\ cursor.x + fit_hyphen_width = style.bounds.x1

====
